---- MODULE Spec2Model ----
(***************************************************************************)
(* A model of reactr's Wasm environment (instance pool, identifier         *)
(* registry, FFI result staging), of the graphql_query host function, and  *)
(* of the Reactr front object (Do/DoWithCaps/Register/Listen).             *)
(***************************************************************************)
EXTENDS Integers, Sequences, FiniteSets, TLC

\* ------------------------------------------------------------------ bounds
\* number of wasmInstance objects the environment can ever create
MaxInst == 2
\* number of distinct values randomIdentifier can draw
NumIdents == 2
\* longest GraphQL response (in marshalled bytes)
MaxResp == 1
\* longest byte string handed to setFFIResult
MaxLen == 1
\* number of messages the bus delivers to the pod
MaxMsgs == 2
\* jobs submitted to the scheduler
MaxJobs == 2
\* the largest value of the option retries
MaxRetries == 1
\* the largest value of the options pool_size and autoscale_max
MaxPool == 4
\* the samples below the low-water ratio after which a worker is removed
LowSamples == 2

\* goroutines calling into the environment
Threads == {"t1", "t2"}
InstIds == 1..MaxInst
Idents == 0..(NumIdents - 1)
Resps == 1..MaxResp
\* the byte values the staged replies are made of
Bytes == {0, 1}

\* a nil []byte: no byte string (a byte is 0..255)
Nil == <<-1>>
\* a nil *rt.Ctx
NoCtx == "nil"
NoThread == "none"
NoRef == [EnvUUID |-> "", InstIndex |-> -1]
\* no host function has returned yet
NoRet == [val |-> 0, err |-> ""]
\* neither setFFIResult nor useFFIResult has been called directly yet
NoFFIRet == [op |-> "none", inst |-> 0, arg |-> Nil, err |-> FALSE, data |-> Nil]
EnvUUID == "env-1"

\* the Reactr objects made with New(), each with its own core
Reactrs == {"r1", "r2"}
\* the default Capabilities object New() gives a Reactr
DefaultCaps(r) == IF r = "r1" THEN "d1" ELSE "d2"
\* the Capabilities objects: the defaults and one made by the caller
CapsObjs == {"d1", "d2", "c1"}
\* the Capabilities objects a caller holds (defaultCaps is not exported)
UserCaps == {"c1"}
\* a nil *Capabilities, and a doFunc that is not set
NilCaps == "nil"
JobTypes == {"a", "b"}
\* no job
NoJob == [type |-> "none", caps |-> NilCaps]

\* the jobs submitted to one pool
JobIds == 1..MaxJobs
\* a job that was not submitted yet: no promise exists
NoJobState == [st |-> "new", tries |-> 0, promise |-> [state |-> "none", n |-> 0]]
\* a pool that was not registered yet
NoPool ==
  [size |-> 0, max |-> 0, preWarm |-> FALSE, started |-> FALSE, n |-> 0, high |-> FALSE,
   low |-> 0]

VARIABLES
  \* wasmEnvironment
  instances,      \* w.instances: sequence of instance objects
  instIndex,      \* w.instIndex: the round-robin cursor
  lock,           \* w.lock: the thread that holds it for good (a panic under Lock), or NoThread
  exports,        \* the start hooks the module exports
  created,        \* how many wasmInstance objects addInstance has built
  \* wasmInstance fields, per object
  wasmerInst,     \* "none" (not built), "open", "closed" (Close called, field nil)
  ctx,            \* inst.ctx: NoCtx or the job context of a thread
  ffiResult,      \* inst.ffiResult: Nil or the staged bytes
  access,         \* inst.access: permits taken from the weighted semaphore (0 or 1)
  accessNil,      \* inst.access = nil (after removal)
  hookCalls,      \* the start hooks the latest addInstance called, in order
  \* package state
  instanceMapper, \* ident -> instanceReference, NoRef when absent
  \* goroutines
  pc, inst, idx, ident, deferNil, ret,
  \* a host call made by the guest running in a goroutine's instFunc
  hcpc, hcKind, hcIdent, hcRef, hcInst, hcResp, hcRet,
  \* what the latest direct call of setFFIResult / useFFIResult was given and returned
  ffiRet,
  \* Reactr.Listen: the message type the pod's handler is bound to, the number of
  \* messages delivered to the pod so far, and the replies the pod has sent
  onType, nmsgs, replies,
  \* Reactr objects: the doFunc field of each Capabilities object, the default
  \* Capabilities of each core's workers, and the job each core is running
  doFunc, workers, running,
  \* the scheduler: whether the job type's pool is registered, each job with its
  \* result promise, and the pool's options and worker count
  registered, jobs, pool

envVars == <<instances, instIndex, lock, exports, created>>
instVars == <<wasmerInst, ctx, ffiResult, access, accessNil, hookCalls>>
thVars == <<pc, inst, idx, ident, deferNil, ret>>
hcVars == <<hcpc, hcKind, hcIdent, hcRef, hcInst, hcResp, hcRet>>
listenVars == <<onType, nmsgs, replies>>
capsVars == <<doFunc, workers, running>>
schedVars == <<registered, jobs, pool>>
sideVars == <<ffiRet, listenVars, capsVars, schedVars>>
vars == <<envVars, instVars, instanceMapper, thVars, hcVars, sideVars>>

Range(s) == {s[i] : i \in 1..Len(s)}

\* json.Marshal of a response: a byte string whose length is the response's size
Marshal(resp) == [i \in 1..resp |-> 34]

\* ------------------------------------------------------------------ init
\* newEnvironment for a module that exports the start hooks ex: no instance yet
EnvInit(ex) ==
  /\ instances = <<>>
  /\ instIndex = 0
  /\ lock = NoThread
  /\ exports = ex
  /\ created = 0
  /\ wasmerInst = [i \in InstIds |-> "none"]
  /\ ctx = [i \in InstIds |-> NoCtx]
  /\ ffiResult = [i \in InstIds |-> Nil]
  /\ access = [i \in InstIds |-> 0]
  /\ accessNil = [i \in InstIds |-> FALSE]
  /\ hookCalls = <<>>
  /\ instanceMapper = [id \in Idents |-> NoRef]
  /\ pc = [t \in Threads |-> "idle"]
  /\ inst = [t \in Threads |-> 0]
  /\ idx = [t \in Threads |-> 0]
  /\ ident = [t \in Threads |-> -1]
  /\ deferNil = [t \in Threads |-> FALSE]
  /\ ret = [t \in Threads |-> "none"]
  /\ hcpc = [t \in Threads |-> "none"]
  /\ hcKind = [t \in Threads |-> "none"]
  /\ hcIdent = [t \in Threads |-> -1]
  /\ hcRef = [t \in Threads |-> NoRef]
  /\ hcInst = [t \in Threads |-> 0]
  /\ hcResp = [t \in Threads |-> 0]
  /\ hcRet = [t \in Threads |-> NoRet]
  /\ ffiRet = NoFFIRet
  /\ onType = "none"
  /\ nmsgs = 0
  /\ replies = <<>>
  /\ doFunc = [c \in CapsObjs |-> NilCaps]
  /\ workers = [r \in Reactrs |-> [jt \in JobTypes |-> NilCaps]]
  /\ running = [r \in Reactrs |-> NoJob]
  /\ registered = FALSE
  /\ jobs = [j \in JobIds |-> NoJobState]
  /\ pool = NoPool

\* the environment of a module without start hooks
Init == EnvInit({})

\* ------------------------------------------------------------- addInstance
\* the start hook addInstance tries first: the WASI start function, else _start
StartHook(ex) ==
  IF "wasi_start" \in ex THEN <<"wasi_start">>
  ELSE IF "_start" \in ex THEN <<"_start">>
  ELSE <<>>

\* the init hook as the Beta-12 notes word it: called only without a start hook
InitHook_IfNoStart(ex) ==
  IF "init" \in ex /\ StartHook(ex) = <<>> THEN <<"init">> ELSE <<>>

\* the init hook, called after the start hook returned without error
InitHook(ex) == IF "init" \in ex THEN <<"init">> ELSE <<>>

\* one call of a start hook and whether it returned an error
Called(hooks, failing) == [k \in 1..Len(hooks) |-> [hook |-> hooks[k], err |-> hooks[k] \in failing]]

\* the hooks addInstance calls and whether one of them failed; failing is the set
\* of exported hooks that return an error when called
RunHooks(ex, failing) ==
  LET s == StartHook(ex) IN
  IF s # <<>> /\ s[1] \in failing
  THEN [calls |-> Called(s, failing), err |-> TRUE]
  ELSE [calls |-> Called(s \o InitHook(ex), failing),
        err |-> InitHook(ex) # <<>> /\ "init" \in failing]

\* the start hooks a module can export
Hooks == {"wasi_start", "_start", "init"}

\* addInstance, under Lock from start to end: build the module and the instance
\* (either can fail), run the start hooks, and append the instance when none failed
AddInstance(t) ==
  /\ pc[t] = "idle"
  /\ lock = NoThread
  /\ \E build \in {"ok", "internalsErr", "newInstanceErr"} :
       \/ /\ build # "ok"
          /\ ret' = [ret EXCEPT ![t] = "err"]
          /\ hookCalls' = <<>>
          /\ UNCHANGED <<envVars, wasmerInst, ctx, ffiResult, access, accessNil>>
       \/ /\ build = "ok"
          /\ created < MaxInst
          /\ \E failing \in SUBSET exports :
               LET new == created + 1
                   h == RunHooks(exports, failing) IN
               /\ hookCalls' = h.calls
               /\ IF h.err
                  THEN /\ ret' = [ret EXCEPT ![t] = "err"]
                       /\ UNCHANGED <<instances, created, wasmerInst>>
                  ELSE /\ ret' = [ret EXCEPT ![t] = "ok"]
                       /\ created' = new
                       /\ wasmerInst' = [wasmerInst EXCEPT ![new] = "open"]
                       /\ instances' = Append(instances, new)
               /\ UNCHANGED <<instIndex, lock, exports, ctx, ffiResult, access, accessNil>>
  /\ UNCHANGED <<instanceMapper, pc, inst, idx, ident, deferNil, hcVars>>
  /\ UNCHANGED sideVars

\* a locked section that returns without unlocking
Unlock_Missing(t) == t

\* w.lock.Unlock() / w.lock.RUnlock() at the end of goroutine t's locked section:
\* the holder of the lock afterwards
Unlock(t) == NoThread

\* a goroutine's locals go out of scope when its call returns or panics
Leave(t, to) ==
  /\ pc' = [pc EXCEPT ![t] = to]
  /\ inst' = [inst EXCEPT ![t] = 0]
  /\ idx' = [idx EXCEPT ![t] = 0]
  /\ ident' = [ident EXCEPT ![t] = -1]
  /\ deferNil' = [deferNil EXCEPT ![t] = FALSE]

\* ---------------------------------------------------------- removeInstance
\* the early return tested with < instead of ==
PoolEmpty_Negative(list) == Len(list) < 0

\* the test that makes removeInstance return at once
PoolEmpty(list) == Len(list) = 0

\* step 1: under RLock, return nil on an empty list, else snapshot the last
\* instance (indexing an empty list would panic with the read lock held)
RemoveSnapshot(t) ==
  /\ pc[t] = "idle"
  /\ lock = NoThread
  /\ IF PoolEmpty(instances)
     THEN /\ ret' = [ret EXCEPT ![t] = "ok"]
          /\ lock' = Unlock(t)
          /\ UNCHANGED <<pc, inst>>
     ELSE IF Len(instances) = 0
     THEN /\ lock' = t
          /\ pc' = [pc EXCEPT ![t] = "panicked"]
          /\ UNCHANGED <<inst, ret>>
     ELSE /\ inst' = [inst EXCEPT ![t] = instances[Len(instances)]]
          /\ pc' = [pc EXCEPT ![t] = "rReadAccess"]
          /\ ret' = [ret EXCEPT ![t] = "none"]
          /\ lock' = Unlock(t)
  /\ UNCHANGED <<instances, instIndex, exports, created, instVars, instanceMapper,
                 idx, ident, deferNil, hcVars>>
  /\ UNCHANGED sideVars

\* step 2a: evaluate inst.access; a nil semaphore panics in Acquire
RemoveReadAccess(t) ==
  /\ pc[t] = "rReadAccess"
  /\ IF accessNil[inst[t]]
     THEN Leave(t, "panicked")
     ELSE /\ pc' = [pc EXCEPT ![t] = "rAcquire"]
          /\ UNCHANGED <<inst, idx, ident, deferNil>>
  /\ UNCHANGED <<envVars, instVars, instanceMapper, ret, hcVars>>
  /\ UNCHANGED sideVars

\* the advance without the wrap to 0
NextIndex_NoWrap(cursor, n) == cursor + 1

\* a gate built with semaphore.NewWeighted(2)
CanAcquire_Weight2(taken) == taken < 2

\* whether Acquire(1) can return: the permit of the weighted semaphore is free
CanAcquire(taken) == taken = 0

\* step 2b: Acquire returns once the permit is free
RemoveAcquire(t) ==
  /\ pc[t] = "rAcquire"
  /\ CanAcquire(access[inst[t]])
  /\ access' = [access EXCEPT ![inst[t]] = 1]
  /\ pc' = [pc EXCEPT ![t] = "rTrim"]
  /\ UNCHANGED <<envVars, wasmerInst, ctx, ffiResult, accessNil, hookCalls,
                 instanceMapper, inst, idx, ident, deferNil, ret, hcVars>>
  /\ UNCHANGED sideVars

\* the cursor after the trim: decremented only when it pointed at the last slot
TrimIndex(cursor, n) == IF cursor = n - 1 THEN cursor - 1 ELSE cursor

\* step 3: under Lock, fix the cursor and drop the last slot of the list; slicing an
\* empty list panics with the lock held
RemoveTrim(t) ==
  /\ pc[t] = "rTrim"
  /\ lock = NoThread
  /\ instIndex' = TrimIndex(instIndex, Len(instances))
  /\ IF Len(instances) = 0
     THEN /\ lock' = t
          /\ Leave(t, "panicked")
          /\ UNCHANGED instances
     ELSE /\ instances' = SubSeq(instances, 1, Len(instances) - 1)
          /\ pc' = [pc EXCEPT ![t] = "rClose"]
          /\ lock' = Unlock(t)
          /\ UNCHANGED <<inst, idx, ident, deferNil>>
  /\ UNCHANGED <<exports, created, instVars, instanceMapper, ret, hcVars>>
  /\ UNCHANGED sideVars

\* step 4a: Close the engine instance and nil the fields; Close on a nil
\* wasmerInst panics
RemoveClose(t) ==
  /\ pc[t] = "rClose"
  /\ IF wasmerInst[inst[t]] # "open"
     THEN /\ Leave(t, "panicked")
          /\ UNCHANGED <<wasmerInst, ctx, ffiResult>>
     ELSE /\ wasmerInst' = [wasmerInst EXCEPT ![inst[t]] = "closed"]
          /\ ctx' = [ctx EXCEPT ![inst[t]] = NoCtx]
          /\ ffiResult' = [ffiResult EXCEPT ![inst[t]] = Nil]
          /\ pc' = [pc EXCEPT ![t] = "rRelease"]
          /\ UNCHANGED <<inst, idx, ident, deferNil>>
  /\ UNCHANGED <<envVars, access, accessNil, hookCalls, instanceMapper, ret, hcVars>>
  /\ UNCHANGED sideVars

\* step 4b: inst.access.Release(1)
RemoveRelease(t) ==
  /\ pc[t] = "rRelease"
  /\ IF accessNil[inst[t]]
     THEN /\ Leave(t, "panicked")
          /\ UNCHANGED access
     ELSE /\ access' = [access EXCEPT ![inst[t]] = 0]
          /\ pc' = [pc EXCEPT ![t] = "rNil"]
          /\ UNCHANGED <<inst, idx, ident, deferNil>>
  /\ UNCHANGED <<envVars, wasmerInst, ctx, ffiResult, accessNil, hookCalls,
                 instanceMapper, ret, hcVars>>
  /\ UNCHANGED sideVars

\* step 4c: inst.access = nil; return nil
RemoveNil(t) ==
  /\ pc[t] = "rNil"
  /\ accessNil' = [accessNil EXCEPT ![inst[t]] = TRUE]
  /\ Leave(t, "idle")
  /\ ret' = [ret EXCEPT ![t] = "ok"]
  /\ UNCHANGED <<envVars, wasmerInst, ctx, ffiResult, access, hookCalls,
                 instanceMapper, hcVars>>
  /\ UNCHANGED sideVars

\* ------------------------------------------------------------- useInstance
\* the cursor after the advance
NextIndex(cursor, n) == IF cursor = n - 1 THEN 0 ELSE cursor + 1

\* under Lock: advance the cursor and read the instance at it; an index outside
\* the list panics with the lock held
UsePick(t) ==
  /\ pc[t] = "idle"
  /\ lock = NoThread
  /\ LET new == NextIndex(instIndex, Len(instances)) IN
     /\ instIndex' = new
     /\ IF new >= 0 /\ new < Len(instances)
        THEN /\ idx' = [idx EXCEPT ![t] = new]
             /\ inst' = [inst EXCEPT ![t] = instances[new + 1]]
             /\ pc' = [pc EXCEPT ![t] = "uReadAccess"]
             /\ lock' = Unlock(t)
             /\ UNCHANGED <<ident, deferNil>>
        ELSE /\ lock' = t
             /\ Leave(t, "panicked")
  /\ ret' = [ret EXCEPT ![t] = "none"]
  /\ UNCHANGED <<instances, exports, created, instVars, instanceMapper, hcVars>>
  /\ UNCHANGED sideVars

\* evaluate inst.access for Acquire; a nil semaphore panics
UseReadAccess(t) ==
  /\ pc[t] = "uReadAccess"
  /\ IF accessNil[inst[t]]
     THEN Leave(t, "panicked")
     ELSE /\ pc' = [pc EXCEPT ![t] = "uAcquire"]
          /\ UNCHANGED <<inst, idx, ident, deferNil>>
  /\ UNCHANGED <<envVars, instVars, instanceMapper, ret, hcVars>>
  /\ UNCHANGED sideVars

UseAcquire(t) ==
  /\ pc[t] = "uAcquire"
  /\ CanAcquire(access[inst[t]])
  /\ access' = [access EXCEPT ![inst[t]] = 1]
  /\ pc' = [pc EXCEPT ![t] = "uDefer"]
  /\ UNCHANGED <<envVars, wasmerInst, ctx, ffiResult, accessNil, hookCalls,
                 instanceMapper, inst, idx, ident, deferNil, ret, hcVars>>
  /\ UNCHANGED sideVars

\* defer inst.access.Release(1): the receiver is evaluated now
UseDefer(t) ==
  /\ pc[t] = "uDefer"
  /\ deferNil' = [deferNil EXCEPT ![t] = accessNil[inst[t]]]
  /\ pc' = [pc EXCEPT ![t] = "uIdent"]
  /\ UNCHANGED <<envVars, instVars, instanceMapper, inst, idx, ident, ret, hcVars>>
  /\ UNCHANGED sideVars

\* the deferred inst.access.Release(1): a nil receiver panics and frees nothing
Deferred(t, to) ==
  /\ access' = IF deferNil[t] THEN access ELSE [access EXCEPT ![inst[t]] = 0]
  /\ Leave(t, IF deferNil[t] THEN "panicked" ELSE to)

\* instanceMapper.Load(ident): the reference stored under ident, NoRef when absent
Load(m, id) == m[id]

\* setupNewIdentifier's test for an identifier that is in use
IdentifierTaken(m, id) == Load(m, id) # NoRef

\* the lookup with its 'exists' result ignored
KnownIdentifier_Always(m, id) == TRUE

\* instanceForIdentifier's test for an identifier that was issued and not revoked
KnownIdentifier(m, id) == Load(m, id) # NoRef

\* setupNewIdentifier, first half: draw, and go on only with an identifier that
\* Load does not find (a found one is drawn again); or randomIdentifier fails and
\* useInstance returns the error
SetupDraw(t) ==
  /\ pc[t] = "uIdent"
  /\ \/ \E id \in Idents :
          /\ ~IdentifierTaken(instanceMapper, id)
          /\ ident' = [ident EXCEPT ![t] = id]
          /\ pc' = [pc EXCEPT ![t] = "uStore"]
          /\ UNCHANGED <<ret, access, inst, idx, deferNil>>
     \/ /\ ret' = [ret EXCEPT ![t] = "err"]
        /\ Deferred(t, "idle")
  /\ UNCHANGED <<envVars, wasmerInst, ctx, ffiResult, accessNil, hookCalls,
                 instanceMapper, hcVars>>
  /\ UNCHANGED sideVars

\* setupNewIdentifier, second half: instanceMapper.Store(ident, ref)
SetupStore(t) ==
  /\ pc[t] = "uStore"
  /\ instanceMapper' = [instanceMapper EXCEPT
                          ![ident[t]] = [EnvUUID |-> EnvUUID, InstIndex |-> idx[t]]]
  /\ pc' = [pc EXCEPT ![t] = "uSetup"]
  /\ UNCHANGED <<envVars, instVars, inst, idx, ident, deferNil, ret, hcVars>>
  /\ UNCHANGED sideVars

\* inst.ffiResult = nil; inst.ctx = ctx
UseSetup(t) ==
  /\ pc[t] = "uSetup"
  /\ ffiResult' = [ffiResult EXCEPT ![inst[t]] = Nil]
  /\ ctx' = [ctx EXCEPT ![inst[t]] = t]
  /\ pc' = [pc EXCEPT ![t] = "instFunc"]
  /\ UNCHANGED <<envVars, wasmerInst, access, accessNil, hookCalls, instanceMapper,
                 inst, idx, ident, deferNil, ret, hcVars>>
  /\ UNCHANGED sideVars

\* goroutine t's host call is over: its locals go out of scope
HcReset(t) ==
  /\ hcpc' = [hcpc EXCEPT ![t] = "none"]
  /\ hcKind' = [hcKind EXCEPT ![t] = "none"]
  /\ hcIdent' = [hcIdent EXCEPT ![t] = -1]
  /\ hcRef' = [hcRef EXCEPT ![t] = NoRef]
  /\ hcInst' = [hcInst EXCEPT ![t] = 0]
  /\ hcResp' = [hcResp EXCEPT ![t] = 0]

\* the host function returns v to the guest, having logged error e ("" for none)
HcReturn(t, v, e) ==
  /\ HcReset(t)
  /\ hcRet' = [hcRet EXCEPT ![t] = [val |-> v, err |-> e]]

\* a panic inside instFunc (or a host function it called) unwinds useInstance:
\* only the deferred Release runs
PanicInCall(t) ==
  /\ access' = IF deferNil[t] THEN access ELSE [access EXCEPT ![inst[t]] = 0]
  /\ Leave(t, "panicked")
  /\ hcRet' = [hcRet EXCEPT ![t] = NoRet]
  /\ HcReset(t)

\* instFunc returns and useInstance clears the temporary state (inst.ctx = nil;
\* inst.ffiResult = nil); on an instance whose engine instance was closed
\* instFunc may instead panic on the nil wasmerInst
InstFuncReturn(t) ==
  /\ pc[t] = "instFunc"
  /\ hcpc[t] = "none"
  /\ \/ /\ pc' = [pc EXCEPT ![t] = "uRemoveIdent"]
        /\ ctx' = [ctx EXCEPT ![inst[t]] = NoCtx]
        /\ ffiResult' = [ffiResult EXCEPT ![inst[t]] = Nil]
        /\ hcRet' = [hcRet EXCEPT ![t] = NoRet]
        /\ UNCHANGED <<access, inst, idx, ident, deferNil,
                       hcpc, hcKind, hcIdent, hcRef, hcInst, hcResp>>
     \/ /\ wasmerInst[inst[t]] # "open"
        /\ PanicInCall(t)
        /\ UNCHANGED <<ctx, ffiResult>>
  /\ UNCHANGED <<envVars, wasmerInst, accessNil, hookCalls, instanceMapper, ret>>
  /\ UNCHANGED sideVars

\* removeIdentifier(ident)
UseRemoveIdent(t) ==
  /\ pc[t] = "uRemoveIdent"
  /\ instanceMapper' = [instanceMapper EXCEPT ![ident[t]] = NoRef]
  /\ pc' = [pc EXCEPT ![t] = "uRelease"]
  /\ UNCHANGED <<envVars, instVars, inst, idx, ident, deferNil, ret, hcVars>>
  /\ UNCHANGED sideVars

\* return nil: the deferred inst.access.Release(1) runs
UseRelease(t) ==
  /\ pc[t] = "uRelease"
  /\ ret' = [ret EXCEPT ![t] = "ok"]
  /\ Deferred(t, "idle")
  /\ UNCHANGED <<envVars, wasmerInst, ctx, ffiResult, accessNil, hookCalls,
                 instanceMapper, hcVars>>
  /\ UNCHANGED sideVars

\* ------------------------------------------------------------- host calls
\* instanceAtIndex(idx): the error for len <= idx-1, else instances[idx], which
\* panics for an index outside the list
InstanceAtIndex(list, i) ==
  IF Len(list) <= i - 1 THEN [err |-> "invalid instance index", inst |-> 0]
  ELSE IF i >= 0 /\ i < Len(list) THEN [err |-> "", inst |-> list[i + 1]]
  ELSE [err |-> "panic", inst |-> 0]

\* the check of instanceForIdentifier on the instance it resolved
ReentrantCall(needsFFIResult, staged) == needsFFIResult /\ staged # Nil

\* instanceForIdentifier from the reference it loaded on
ResolveRef(ref, needsFFIResult) ==
  LET r == InstanceAtIndex(instances, ref.InstIndex) IN
  IF r.err # "" THEN r
  ELSE IF ReentrantCall(needsFFIResult, ffiResult[r.inst])
  THEN [err |-> "call in progress", inst |-> 0]
  ELSE r

\* instanceForIdentifier(ident, needsFFIResult), taken in one piece
InstanceForIdentifier(id, needsFFIResult) ==
  IF ~KnownIdentifier(instanceMapper, id)
  THEN [err |-> "instance does not exist", inst |-> 0]
  ELSE ResolveRef(Load(instanceMapper, id), needsFFIResult)

\* the value instanceForIdentifier's needsFFIResult takes in each host function
NeedsFFIResult(kind) == kind = "graphql_query"

\* the host functions the guest can call
HostFns == {"graphql_query", "get_ffi_result"}

\* the guest running in t's instFunc calls host function kind with identifier id;
\* instanceForIdentifier looks the identifier up in the registry, and an unknown
\* identifier is an error: the host function returns -1
HostCall(t, kind, id) ==
  /\ pc[t] = "instFunc"
  /\ hcpc[t] = "none"
  /\ IF ~KnownIdentifier(instanceMapper, id)
     THEN HcReturn(t, -1, "instance does not exist")
     ELSE /\ hcKind' = [hcKind EXCEPT ![t] = kind]
          /\ hcIdent' = [hcIdent EXCEPT ![t] = id]
          /\ hcRef' = [hcRef EXCEPT ![t] = Load(instanceMapper, id)]
          /\ hcpc' = [hcpc EXCEPT ![t] = "resolve"]
          /\ hcRet' = [hcRet EXCEPT ![t] = NoRet]
          /\ UNCHANGED <<hcInst, hcResp>>
  /\ UNCHANGED <<envVars, instVars, instanceMapper, thVars>>
  /\ UNCHANGED sideVars

\* instanceForIdentifier, the rest: under the read locks, instanceAtIndex and the
\* check for a staged reply; an error makes the host function return -1
HostResolve(t) ==
  /\ hcpc[t] = "resolve"
  /\ lock = NoThread
  /\ LET r == ResolveRef(hcRef[t], NeedsFFIResult(hcKind[t])) IN
     \/ /\ r.err = "panic"
        /\ PanicInCall(t)
     \/ /\ r.err \notin {"", "panic"}
        /\ HcReturn(t, -1, r.err)
        /\ UNCHANGED <<access, pc, inst, idx, ident, deferNil>>
     \/ /\ r.err = ""
        /\ hcInst' = [hcInst EXCEPT ![t] = r.inst]
        /\ hcpc' = [hcpc EXCEPT ![t] = IF hcKind[t] = "graphql_query" THEN "cap" ELSE "use"]
        /\ UNCHANGED <<access, pc, inst, idx, ident, deferNil,
                       hcKind, hcIdent, hcRef, hcResp, hcRet>>
  /\ UNCHANGED <<envVars, wasmerInst, ctx, ffiResult, accessNil, hookCalls,
                 instanceMapper, ret>>
  /\ UNCHANGED sideVars

\* graphql_query: read the arguments from guest memory and run the capability of
\* the instance's ctx; a closed instance or an unbound ctx is a nil dereference
HostCapability(t) ==
  /\ hcpc[t] = "cap"
  /\ \/ /\ (wasmerInst[hcInst[t]] # "open" \/ ctx[hcInst[t]] = NoCtx)
        /\ PanicInCall(t)
     \/ /\ wasmerInst[hcInst[t]] = "open" /\ ctx[hcInst[t]] # NoCtx
        /\ \/ HcReturn(t, -1, "failed to GraphQLClient.Do")
           \/ \E resp \in Resps :
                /\ hcResp' = [hcResp EXCEPT ![t] = resp]
                /\ hcpc' = [hcpc EXCEPT ![t] = "stage"]
                /\ UNCHANGED <<hcKind, hcIdent, hcRef, hcInst, hcRet>>
        /\ UNCHANGED <<access, pc, inst, idx, ident, deferNil>>
  /\ UNCHANGED <<envVars, wasmerInst, ctx, ffiResult, accessNil, hookCalls,
                 instanceMapper, ret>>
  /\ UNCHANGED sideVars

\* setFFIResult that reports the error and overwrites all the same
SetFFIResult_Overwrite(cur, data) == [err |-> cur # Nil, ffiResult |-> data]

\* setFFIResult(data) on an instance whose staged reply is cur
SetFFIResult(cur, data) ==
  IF cur # Nil THEN [err |-> TRUE, ffiResult |-> cur]
  ELSE [err |-> FALSE, ffiResult |-> data]

\* useFFIResult() on an instance whose staged reply is cur
UseFFIResult(cur) ==
  IF cur = Nil THEN [err |-> TRUE, data |-> Nil, ffiResult |-> cur]
  ELSE [err |-> FALSE, data |-> cur, ffiResult |-> Nil]

\* graphql_query: marshal the response (or fail and return -1), stage it with
\* SetFFIResult, whose error is dropped, and return its length
HostStage(t) ==
  /\ hcpc[t] = "stage"
  /\ \/ /\ HcReturn(t, -1, "failed to Marshal")
        /\ UNCHANGED ffiResult
     \/ /\ ffiResult' = [ffiResult EXCEPT ![hcInst[t]] =
                           SetFFIResult(@, Marshal(hcResp[t])).ffiResult]
        /\ HcReturn(t, Len(Marshal(hcResp[t])), "")
  /\ UNCHANGED <<envVars, wasmerInst, ctx, access, accessNil, hookCalls,
                 instanceMapper, thVars>>
  /\ UNCHANGED sideVars

\* get_ffi_result: consume the staged reply with useFFIResult and copy it to the
\* guest; -1 when nothing is staged
HostUse(t) ==
  /\ hcpc[t] = "use"
  /\ LET u == UseFFIResult(ffiResult[hcInst[t]]) IN
     /\ ffiResult' = [ffiResult EXCEPT ![hcInst[t]] = u.ffiResult]
     /\ IF u.err THEN HcReturn(t, -1, "instance ffiResult is not set")
        ELSE HcReturn(t, Len(u.data), "")
  /\ UNCHANGED <<envVars, wasmerInst, ctx, access, accessNil, hookCalls,
                 instanceMapper, thVars>>
  /\ UNCHANGED sideVars

\* ------------------------------------------------------------------ next
\* a step of addInstance, removeInstance or useInstance in goroutine t
PoolStep(t) ==
  \/ AddInstance(t)
  \/ RemoveSnapshot(t) \/ RemoveReadAccess(t) \/ RemoveAcquire(t) \/ RemoveTrim(t)
  \/ RemoveClose(t) \/ RemoveRelease(t) \/ RemoveNil(t)
  \/ UsePick(t) \/ UseReadAccess(t) \/ UseAcquire(t) \/ UseDefer(t)
  \/ SetupDraw(t) \/ SetupStore(t) \/ UseSetup(t) \/ InstFuncReturn(t)
  \/ UseRemoveIdent(t) \/ UseRelease(t)

\* a step of a host call in progress in goroutine t
HostStep(t) ==
  \/ HostResolve(t) \/ HostCapability(t)
  \/ HostStage(t) \/ HostUse(t)

\* a step of goroutine t, with guests that may present any identifier
EnvStep(t) ==
  \/ PoolStep(t)
  \/ HostStep(t)
  \/ (\E kind \in HostFns, id \in Idents : HostCall(t, kind, id))

Next == \E t \in Threads : EnvStep(t)

Spec == Init /\ [][Next]_vars

\* a step of goroutine t, with guests that present only the identifier their
\* call was given
HonestStep(t) ==
  \/ PoolStep(t)
  \/ HostStep(t)
  \/ (\E kind \in HostFns : HostCall(t, kind, ident[t]))

NextHonest == \E t \in Threads : HonestStep(t)

SpecHonest == Init /\ [][NextHonest]_vars

\* the instance pool alone, for a module with any set of start hooks
InitStart == \E ex \in SUBSET Hooks : EnvInit(ex)

NextStart == \E t \in Threads : PoolStep(t)

SpecStart == InitStart /\ [][NextStart]_vars

\* the instance pool alone, for a module without start hooks
SpecPool == Init /\ [][NextStart]_vars

\* ---------------------------------------------- setFFIResult / useFFIResult
\* the non-nil byte strings a host function can stage, the empty one included
Datas == UNION {[1..n -> Bytes] : n \in 0..MaxLen}

\* w.setFFIResult(data) on the instance i of the pool
FFISet(i, d) ==
  /\ i \in Range(instances)
  /\ LET r == SetFFIResult(ffiResult[i], d) IN
     /\ ffiResult' = [ffiResult EXCEPT ![i] = r.ffiResult]
     /\ ffiRet' = [op |-> "set", inst |-> i, arg |-> d, err |-> r.err, data |-> Nil]
  /\ UNCHANGED <<envVars, wasmerInst, ctx, access, accessNil, hookCalls,
                 instanceMapper, thVars, hcVars, listenVars, capsVars, schedVars>>

\* w.useFFIResult() on the instance i of the pool
FFIUse(i) ==
  /\ i \in Range(instances)
  /\ LET u == UseFFIResult(ffiResult[i]) IN
     /\ ffiResult' = [ffiResult EXCEPT ![i] = u.ffiResult]
     /\ ffiRet' = [op |-> "use", inst |-> i, arg |-> Nil, err |-> u.err, data |-> u.data]
  /\ UNCHANGED <<envVars, wasmerInst, ctx, access, accessNil, hookCalls,
                 instanceMapper, thVars, hcVars, listenVars, capsVars, schedVars>>

\* instances are added to the pool and the two functions are called on them
NextFFI ==
  \/ \E t \in Threads : AddInstance(t)
  \/ \E i \in InstIds, d \in Datas : FFISet(i, d)
  \/ \E i \in InstIds : FFIUse(i)

SpecFFI == Init /\ [][NextFFI]_vars

\* ------------------------------------------------------------ Reactr.Listen
MsgTypeReactrJobErr == "reactr.joberr"
MsgTypeReactrRunErr == "reactr.runerr"
MsgTypeReactrResult == "reactr.result"
MsgTypeReactrNilResult == "reactr.nil"

\* the message types on the bus
MsgTypes == {"compute", "other"}
\* the parent ids a message can carry
ParentIDs == {0, 1}

\* a job error is a chain of errors, outermost first: a RunErr returned by a
\* Runnable, a host-side failure, either of them wrapped; <<>> is a nil error
ErrChains == {<<>>, <<"RunErr">>, <<"wrap", "RunErr">>, <<"timeout">>, <<"wrap", "timeout">>}

\* the values a job can return: nothing, a Grav message, bytes, a string, a value
\* that JSON can encode (an integer) and one it cannot (a channel)
JobResults ==
  {[kind |-> "nil", val |-> <<>>], [kind |-> "chan", val |-> <<>>],
   [kind |-> "msg", val |-> <<7>>]}
  \cup {[kind |-> "bytes", val |-> b] : b \in {<<>>, <<1>>}}
  \cup {[kind |-> "string", val |-> b] : b \in {<<>>, <<97>>}}
  \cup {[kind |-> "int", val |-> <<n>>] : n \in {0, 1}}

\* what Then() returns to the handler: an error and no result, or a result and a
\* nil error
Outcomes ==
  {[err |-> c, result |-> [kind |-> "nil", val |-> <<>>]] : c \in ErrChains \ {<<>>}}
  \cup {[err |-> <<>>, result |-> r] : r \in JobResults}

\* Error() of one error of a chain
LayerText(e) == IF e = "RunErr" THEN <<82>> ELSE IF e = "wrap" THEN <<119, 58>> ELSE <<116>>

\* err.Error() of a chain: a wrapping error prints its message, then its cause
RECURSIVE ErrorText(_)
ErrorText(chain) ==
  IF chain = <<>> THEN <<>> ELSE LayerText(Head(chain)) \o ErrorText(Tail(chain))

\* a type assertion on the error itself in place of errors.As
ErrorsAs_TypeAssert(chain) ==
  IF chain # <<>> /\ Head(chain) = "RunErr" THEN <<Head(chain)>> ELSE <<>>

\* errors.As(err, runErr): the first RunErr of the chain, <<>> when there is none
RECURSIVE ErrorsAs(_)
ErrorsAs(chain) ==
  IF chain = <<>> THEN <<>>
  ELSE IF Head(chain) = "RunErr" THEN <<Head(chain)>>
  ELSE ErrorsAs(Tail(chain))

\* json.Marshal(result): the decimal digits of an integer; a channel is an error
JSONMarshal(result) ==
  IF result.kind = "int" THEN [err |-> FALSE, bytes |-> <<48 + result.val[1]>>]
  ELSE [err |-> TRUE, bytes |-> <<>>]

\* grav.NewMsgWithParentID(msgType, parentID, data)
NewMsgWithParentID(msgType, parentID, data) ==
  [topic |-> msgType, parent |-> parentID, body |-> data]

\* the reply message the handler builds for msg from what Then() returned
ListenReply(msg, out) ==
  IF out.err # <<>>
  THEN IF ErrorsAs(out.err) # <<>>
       THEN NewMsgWithParentID(MsgTypeReactrRunErr, msg.parent, ErrorText(ErrorsAs(out.err)))
       ELSE NewMsgWithParentID(MsgTypeReactrJobErr, msg.parent, ErrorText(out.err))
  ELSE IF out.result.kind = "nil"
  THEN NewMsgWithParentID(MsgTypeReactrNilResult, msg.parent, <<>>)
  ELSE IF out.result.kind = "msg"
  THEN [topic |-> "job.msg", parent |-> 0, body |-> out.result.val]
  ELSE IF out.result.kind \in {"bytes", "string"}
  THEN NewMsgWithParentID(MsgTypeReactrResult, msg.parent, out.result.val)
  ELSE IF JSONMarshal(out.result).err
  THEN NewMsgWithParentID(MsgTypeReactrJobErr, msg.parent, <<119, 58, 106>>)
  ELSE NewMsgWithParentID(MsgTypeReactrResult, msg.parent, JSONMarshal(out.result).bytes)

\* r.Listen(pod, msgType): pod.OnType binds the pod's handler to msgType
Listen(msgType) ==
  /\ onType' = msgType
  /\ UNCHANGED <<envVars, instVars, instanceMapper, thVars, hcVars, ffiRet, nmsgs, replies,
                 capsVars, schedVars>>

\* the bus delivers a message to the pod: the handler runs for a message of the
\* bound type only; it runs the job, waits for what Then() returns (out) and
\* replies to the message
OnMessage(msgType, parentID, out) ==
  /\ nmsgs < MaxMsgs
  /\ nmsgs' = nmsgs + 1
  /\ LET msg == [uuid |-> nmsgs + 1, type |-> msgType, parent |-> parentID] IN
     replies' = IF msgType = onType
                THEN Append(replies, [to |-> msg.uuid, msg |-> ListenReply(msg, out)])
                ELSE replies
  /\ UNCHANGED <<envVars, instVars, instanceMapper, thVars, hcVars, ffiRet, onType,
                 capsVars, schedVars>>

NextListen ==
  \/ \E msgType \in MsgTypes : Listen(msgType)
  \/ \E msgType \in MsgTypes, parentID \in ParentIDs, out \in Outcomes :
       OnMessage(msgType, parentID, out)

SpecListen == Init /\ [][NextListen]_vars

\* ------------------------------------------- Reactr.Do / Register / WithCaps
\* the Wasm environment, the FFI staging and the pod are not touched
CapsFrame ==
  UNCHANGED <<envVars, instVars, instanceMapper, thVars, hcVars, ffiRet, listenVars, schedVars>>

\* r.core.register(jobType, runner, caps): the pool of jobType gets caps as its
\* default capability table
CoreRegister(r, jobType, caps) ==
  workers' = [workers EXCEPT ![r][jobType] = caps]

\* r.core.do(&job): a job of a registered type is run by its pool; without a
\* pool the job fails with NoWorker
CoreDo(r, job) ==
  /\ running[r] = NoJob
  /\ running' = [running EXCEPT ![r] = IF workers[r][job.type] # NilCaps THEN job ELSE NoJob]

\* the Capabilities a running job's ctx carries: the job's override, else the
\* pool's default
CtxCaps(r) ==
  IF running[r].caps # NilCaps THEN running[r].caps ELSE workers[r][running[r].type]

\* the core a nested submission of the job running under r goes to
DispatchTarget(r) == doFunc[CtxCaps(r)]

\* the job running under r ends
JobDone(r) ==
  /\ running[r] # NoJob
  /\ running' = [running EXCEPT ![r] = NoJob]
  /\ UNCHANGED <<doFunc, workers>>
  /\ CapsFrame

\* r.RegisterWithCaps(jobType, runner, caps)
RegisterWithCaps(r, jobType, caps) ==
  /\ doFunc' = [doFunc EXCEPT ![caps] = r]
  /\ CoreRegister(r, jobType, caps)
  /\ UNCHANGED running
  /\ CapsFrame

\* r.Register(jobType, runner)
Register(r, jobType) == RegisterWithCaps(r, jobType, DefaultCaps(r))

\* r.DoWithCaps(job, caps)
DoWithCaps(r, jobType, caps) ==
  /\ IF caps # NilCaps
     THEN /\ doFunc' = [doFunc EXCEPT ![caps] = r]
          /\ CoreDo(r, [type |-> jobType, caps |-> caps])
     ELSE /\ UNCHANGED doFunc
          /\ CoreDo(r, [type |-> jobType, caps |-> NilCaps])
  /\ UNCHANGED workers
  /\ CapsFrame

\* r.Do(job)
Do(r, jobType) == DoWithCaps(r, jobType, NilCaps)

NextCaps ==
  \E r \in Reactrs, jobType \in JobTypes :
    \/ Register(r, jobType)
    \/ \E caps \in UserCaps : RegisterWithCaps(r, jobType, caps)
    \/ Do(r, jobType)
    \/ \E caps \in UserCaps : DoWithCaps(r, jobType, caps)
    \/ JobDone(r)

SpecCaps == Init /\ [][NextCaps]_vars

\* ================================================================== claims
\* goroutine t is in useInstance between Acquire's return and the deferred Release
InGate(t) == pc[t] \in {"uDefer", "uIdent", "uStore", "uSetup", "instFunc",
                        "uRemoveIdent", "uRelease"}

\* goroutine t is in a Wasm call between setupNewIdentifier's return and
\* removeIdentifier
InFlight(t) == pc[t] \in {"uSetup", "instFunc", "uRemoveIdent"}

\* C1: at most one useInstance call at a time is between acquiring and releasing
\* the gate of a given instance, so instFunc never runs twice at once on an instance
C1_MutualExclusion ==
  \A t1, t2 \in Threads :
    (t1 # t2 /\ InGate(t1) /\ InGate(t2)) => inst[t1] # inst[t2]

\* C1 witness: a call runs instFunc on an instance while another call waits for
\* the gate of the same instance
C1_Witness ==
  \E t1, t2 \in Threads :
    /\ t1 # t2
    /\ pc[t1] = "instFunc"
    /\ pc[t2] = "uAcquire"
    /\ inst[t1] = inst[t2]

\* C2: two Wasm calls in flight at the same time hold different identifiers, and
\* the registry entry of a call in flight is the pair stored for that call
C2_IdentifierUnique ==
  /\ \A t1, t2 \in Threads :
       (t1 # t2 /\ InFlight(t1) /\ InFlight(t2)) => ident[t1] # ident[t2]
  /\ \A t \in Threads :
       InFlight(t) =>
         instanceMapper[ident[t]] = [EnvUUID |-> EnvUUID, InstIndex |-> idx[t]]

\* C3: while a call's instFunc runs, instanceForIdentifier(ident, false) with the
\* identifier issued to the call returns the instance whose gate the call holds
C3_RoundTrip ==
  \A t \in Threads :
    pc[t] = "instFunc" =>
      InstanceForIdentifier(ident[t], FALSE) = [err |-> "", inst |-> inst[t]]

\* C4: a host call that arrives with an identifier that is not in the registry
\* returns -1 at once (no memory read, no capability) and changes nothing else
C4_UnknownIdentifier ==
  [][\A t \in Threads, kind \in HostFns, id \in Idents :
       (HostCall(t, kind, id) /\ instanceMapper[id] = NoRef) =>
         /\ hcRet'[t] = [val |-> -1, err |-> "instance does not exist"]
         /\ hcpc'[t] = "none"
         /\ UNCHANGED <<envVars, instVars, instanceMapper, thVars>>]_vars

\* C4 witness: a host call made with an unknown identifier has returned -1 to a
\* guest whose own identifier is registered
C4_Witness ==
  \E t \in Threads :
    /\ pc[t] = "instFunc"
    /\ hcpc[t] = "none"
    /\ hcRet[t] = [val |-> -1, err |-> "instance does not exist"]
    /\ instanceMapper[ident[t]] = [EnvUUID |-> EnvUUID, InstIndex |-> idx[t]]

\* C5: graphql_query (needsFFIResult = true) never runs its capability or stages a
\* reply on an instance on which an earlier reply is staged and not consumed
C5_NoReentrantCall ==
  \A t \in Threads :
    (hcKind[t] = "graphql_query" /\ hcpc[t] \in {"cap", "stage"}) =>
      ffiResult[hcInst[t]] = Nil

\* C7: removeInstance on an environment with an empty instance list returns nil
\* and leaves the list, the cursor, every gate and the registry as they were
C7_RemoveOnEmpty ==
  [][\A t \in Threads :
       (RemoveSnapshot(t) /\ Len(instances) = 0) =>
         /\ pc'[t] = "idle"
         /\ ret'[t] = "ok"
         /\ UNCHANGED <<instances, instIndex, lock, access, accessNil, instanceMapper>>]_vars

\* C7 witness: removeInstance has returned nil on an environment that never had an
\* instance
C7_Witness ==
  \E t \in Threads :
    /\ created = 0
    /\ Len(instances) = 0
    /\ pc[t] = "idle"
    /\ ret[t] = "ok"

\* the hooks the module exports, in the order of addInstance's protocol; the WASI
\* start function is the module's _start entry, looked up the WASI way first
ExportedHooks(ex) ==
  LET start == IF "wasi_start" \in ex THEN <<"wasi_start">>
               ELSE IF "_start" \in ex THEN <<"_start">> ELSE <<>>
      second == IF "init" \in ex THEN <<"init">> ELSE <<>>
  IN start \o second

C6_SetAtMostOnce ==
  [][\A i \in InstIds :
       /\ FFISet(i, ffiRet'.arg) =>
            IF ffiResult[i] # Nil
            THEN ffiRet'.err /\ ffiResult'[i] = ffiResult[i]
            ELSE ~ffiRet'.err /\ ffiResult'[i] = ffiRet'.arg /\ ffiRet'.arg \in Datas
       /\ FFIUse(i) =>
            IF ffiResult[i] # Nil
            THEN ~ffiRet'.err /\ ffiRet'.data = ffiResult[i] /\ ffiResult'[i] = Nil
            ELSE ffiRet'.err /\ ffiResult'[i] = Nil
       /\ ffiResult'[i] # ffiResult[i] =>
            \/ FFIUse(i)
            \/ FFISet(i, ffiRet'.arg) /\ ffiResult[i] = Nil]_vars

\* C6 witness: setFFIResult has just failed on an instance whose staged bytes
\* differ from the bytes it was given
C6_Witness ==
  /\ ffiRet.op = "set"
  /\ ffiRet.err
  /\ ffiResult[ffiRet.inst] # Nil
  /\ ffiResult[ffiRet.inst] # ffiRet.arg

C9_NestedDispatchStays ==
  [][/\ \A r \in Reactrs : running'[r] # NoJob => DispatchTarget(r)' = r
     /\ \A r \in Reactrs, jobType \in JobTypes :
          Do(r, jobType) => running'[r].caps = NilCaps /\ doFunc' = doFunc]_vars

\* ------------------------------------------------------------- scheduler: jobs
\* a promise that also takes a second completion
Complete_Overwrite(p, outcome) == [state |-> outcome, n |-> IF p.n < 2 THEN p.n + 1 ELSE p.n]

\* completing a one-shot promise: the first outcome stays, a later one is dropped
Complete(p, outcome) ==
  IF p.state = "pending" THEN [state |-> outcome, n |-> p.n + 1] ELSE p

\* the frame of the job actions
JobFrame ==
  UNCHANGED <<envVars, instVars, instanceMapper, thVars, hcVars, ffiRet, listenVars,
              capsVars, pool>>

\* job j ends with outcome
Finish(j, outcome) ==
  /\ jobs' = [jobs EXCEPT ![j].st = "done", ![j].promise = Complete(@, outcome)]
  /\ UNCHANGED registered
  /\ JobFrame

\* Register(job_type, runnable, options) creates the pool
PoolRegister ==
  /\ ~registered
  /\ registered' = TRUE
  /\ UNCHANGED jobs
  /\ JobFrame

\* Submit(job): the promise is created with the job; without a pool it fails
\* with NoWorker, else the job is put on the pool's queue
Submit(j) ==
  /\ jobs[j].st = "new"
  /\ jobs' = [jobs EXCEPT ![j] =
       IF registered
       THEN [st |-> "queued", tries |-> 0, promise |-> [state |-> "pending", n |-> 0]]
       ELSE [st |-> "done", tries |-> 0,
             promise |-> Complete([state |-> "pending", n |-> 0], "NoWorker")]]
  /\ UNCHANGED registered
  /\ JobFrame

\* a worker takes the job from the queue and its wall clock starts
Dequeue(j) ==
  /\ jobs[j].st = "queued"
  /\ jobs' = [jobs EXCEPT ![j].st = "running"]
  /\ UNCHANGED registered
  /\ JobFrame

\* the Runnable produces a result
RunSucceeds(j) == jobs[j].st = "running" /\ Finish(j, "value")

\* the guest returns a RunError: an application error, not retried
RunReturnsRunErr(j) == jobs[j].st = "running" /\ Finish(j, "RunError")

\* a transient failure: the job goes back to the head of the queue until the
\* retry counter reaches retries, then the promise fails with the last error
RunFailsTransient(j, retries) ==
  /\ jobs[j].st = "running"
  /\ IF jobs[j].tries < retries
     THEN /\ jobs' = [jobs EXCEPT ![j].st = "queued", ![j].tries = @ + 1]
          /\ UNCHANGED registered
          /\ JobFrame
     ELSE Finish(j, "Transient")

\* timeout_seconds pass before the Runnable has a result: the promise fails with
\* Timeout at once, and the Runnable goes on running
RunTimesOut(j) ==
  /\ jobs[j].st = "running"
  /\ jobs' = [jobs EXCEPT ![j].st = "timedOut", ![j].promise = Complete(@, "Timeout")]
  /\ UNCHANGED registered
  /\ JobFrame

\* the Runnable of a job that timed out returns at last
LateResult(j) == jobs[j].st = "timedOut" /\ Finish(j, "value")

\* the worker that holds the job dies: an unrecoverable execution error
WorkerDies(j) == jobs[j].st = "running" /\ Finish(j, "Fatal")

NextJobs ==
  \/ PoolRegister
  \/ \E j \in JobIds : Submit(j)
  \/ \E j \in JobIds : Dequeue(j)
  \/ \E j \in JobIds : RunSucceeds(j)
  \/ \E j \in JobIds : RunReturnsRunErr(j)
  \/ \E j \in JobIds : RunFailsTransient(j, MaxRetries)
  \/ \E j \in JobIds : RunTimesOut(j)
  \/ \E j \in JobIds : LateResult(j)
  \/ \E j \in JobIds : WorkerDies(j)

SpecJobs == Init /\ [][NextJobs]_vars

\* ------------------------------------------------------------- scheduler: autoscaling
\* the frame of the pool actions
ScaleFrame ==
  UNCHANGED <<envVars, instVars, instanceMapper, thVars, hcVars, ffiRet, listenVars,
              capsVars, registered, jobs>>

\* the options a pool is registered with: pool_size, and autoscale_max that is 0
\* (no autoscaling) or not below pool_size
PoolOptions ==
  {o \in [size : 1..MaxPool, max : 0..MaxPool, preWarm : BOOLEAN] :
     o.max = 0 \/ o.max >= o.size}

\* an add-worker decision that ignores autoscale_max
CanGrow_NoMax(p) == p.n <= MaxPool

\* the controller may add a worker: autoscaling is on and the count is below
\* autoscale_max
CanGrow(p) == p.max # 0 /\ p.n < p.max

\* the controller may remove a worker: the count is above pool_size
CanShrink(p) == p.n > p.size

\* Register(job_type, runnable, options): pre_warm instantiates the pool_size
\* workers now
ScaleRegister(o) ==
  /\ pool = NoPool
  /\ pool' = [size |-> o.size, max |-> o.max, preWarm |-> o.preWarm, started |-> o.preWarm,
              n |-> IF o.preWarm THEN o.size ELSE 0, high |-> FALSE, low |-> 0]
  /\ ScaleFrame

\* the first job of a pool that was not pre-warmed instantiates its workers
FirstJob ==
  /\ pool # NoPool
  /\ ~pool.started
  /\ pool' = [pool EXCEPT !.started = TRUE, !.n = pool.size]
  /\ ScaleFrame

\* a sample above the high-water ratio: the second one in a row adds a worker
SampleHigh ==
  /\ pool.started
  /\ pool' = IF pool.high /\ CanGrow(pool)
             THEN [pool EXCEPT !.n = @ + 1, !.high = FALSE, !.low = 0]
             ELSE [pool EXCEPT !.high = TRUE, !.low = 0]
  /\ ScaleFrame

\* a sample below the low-water ratio: after LowSamples of them a worker is removed
SampleLow ==
  /\ pool.started
  /\ pool' = IF pool.low + 1 >= LowSamples /\ CanShrink(pool)
             THEN [pool EXCEPT !.n = @ - 1, !.high = FALSE, !.low = 0]
             ELSE [pool EXCEPT !.high = FALSE,
                               !.low = IF @ < LowSamples THEN @ + 1 ELSE @]
  /\ ScaleFrame

\* a sample between the two ratios
SampleBetween ==
  /\ pool.started
  /\ pool' = [pool EXCEPT !.high = FALSE, !.low = 0]
  /\ ScaleFrame

NextScale ==
  \/ \E o \in PoolOptions : ScaleRegister(o)
  \/ FirstJob
  \/ SampleHigh
  \/ SampleLow
  \/ SampleBetween

SpecScale == Init /\ [][NextScale]_vars

\* goroutine t is in removeInstance with the gate of its snapshot acquired
InRemoveGate(t) == pc[t] \in {"rTrim", "rClose", "rRelease"}

\* C13: the instance removeInstance trims from the list is the one it snapshotted
\* and whose gate it holds, it closes that same instance, and no useInstance call
\* holds the gate of the instance that is trimmed or closed
C13_RemovesWhatItAcquired ==
  [][\A t \in Threads :
       /\ RemoveTrim(t) =>
            /\ Len(instances) > 0
            /\ instances[Len(instances)] = inst[t]
            /\ \A u \in Threads \ {t} : InGate(u) => inst[u] # instances[Len(instances)]
       /\ RemoveClose(t) =>
            /\ inst[t] \notin Range(instances)
            /\ \A u \in Threads \ {t} : InGate(u) => inst[u] # inst[t]]_vars

\* C14: every registry entry belongs to a useInstance call that is between its
\* Store and its Delete, holds the gate, and whose instance is the one the entry's
\* index refers to
C14_IdentifierInsideGate ==
  \A id \in Idents :
    instanceMapper[id] # NoRef =>
      \E t \in Threads :
        /\ InFlight(t)
        /\ ident[t] = id
        /\ access[inst[t]] = 1
        /\ instanceMapper[id] = [EnvUUID |-> EnvUUID, InstIndex |-> idx[t]]
        /\ idx[t] < Len(instances)
        /\ instances[idx[t] + 1] = inst[t]

\* C15: no goroutine holds the environment's lock while it evaluates or waits for
\* an instance's gate, in useInstance and in removeInstance
C15_LockDiscipline ==
  \A t \in Threads :
    pc[t] \in {"rReadAccess", "rAcquire", "uReadAccess", "uAcquire"} => lock # t

\* C15 witness: a useInstance call waits for the gate of an instance that a
\* removeInstance call holds, and the lock is free
C15_Witness ==
  \E t, u \in Threads :
    /\ pc[t] = "uAcquire"
    /\ InRemoveGate(u)
    /\ inst[t] = inst[u]
    /\ access[inst[t]] = 1
    /\ lock = NoThread

\* C17: while instFunc runs on an instance, the instance is in the environment's
\* list and its engine instance has not been closed
C17_NeverOnRemoved ==
  \A t \in Threads :
    pc[t] = "instFunc" =>
      /\ inst[t] \in Range(instances)
      /\ wasmerInst[inst[t]] = "open"

\* C19: on a list of n >= 1 instances a useInstance call selects index
\* (cursor + 1) mod n, leaves the cursor there and reads the instance at it, all
\* in one step under the lock
C19_RoundRobin ==
  [][\A t \in Threads :
       (UsePick(t) /\ Len(instances) >= 1) =>
         LET n == Len(instances)
             sel == (instIndex + 1) % n
         IN /\ instIndex' = sel
            /\ idx'[t] = sel
            /\ inst'[t] = instances[sel + 1]
            /\ pc'[t] = "uReadAccess"
            /\ lock' = NoThread]_vars

\* C19 witness: on a list of two instances two calls in a row were given the two
\* indexes, the second one after the cursor wrapped to 0
C19_Witness ==
  \E t, u \in Threads :
    /\ Len(instances) = 2
    /\ instIndex = 0
    /\ pc[t] \in {"uReadAccess", "uAcquire", "uDefer", "uIdent"} /\ idx[t] = 1
    /\ pc[u] = "uReadAccess" /\ idx[u] = 0
    /\ inst[t] = instances[2] /\ inst[u] = instances[1]

\* C20: instanceAtIndex, called for a reference whose index is negative or not
\* below the length of the list, returns 'invalid instance index' (the host call
\* ends with -1) and never indexes the list
C20_RejectsOutOfRange ==
  [][\A t \in Threads :
       (HostResolve(t) /\ (hcRef[t].InstIndex < 0 \/ hcRef[t].InstIndex >= Len(instances))) =>
         /\ hcRet'[t] = [val |-> -1, err |-> "invalid instance index"]
         /\ pc'[t] = pc[t]]_vars

\* a goroutine whose call panicked never returns
Dead(t) == pc[t] = "panicked"

\* C16: nothing a later call has to wait for is left taken for good: the lock is
\* never held by a goroutine that is gone, and every taken gate has a goroutine
\* that is still inside useInstance or removeInstance to release it
C16_NothingHeldForGood ==
  /\ lock # NoThread => ~Dead(lock)
  /\ \A i \in InstIds :
       access[i] = 1 =>
         \E t \in Threads : (InGate(t) \/ InRemoveGate(t)) /\ inst[t] = i /\ ~deferNil[t]

\* C18: while instFunc runs the gate is held, the identifier refers to the call's
\* instance and the instance's context is the call's; a return from useInstance
\* leaves the context unbound, no staged reply, the identifier revoked and the
\* gate free; a failure to issue the identifier returns the error with the gate
\* free and without running instFunc
C18_Bracket ==
  [][\A t \in Threads :
       /\ pc[t] = "instFunc" =>
            /\ access[inst[t]] = 1
            /\ Load(instanceMapper, ident[t]) = [EnvUUID |-> EnvUUID, InstIndex |-> idx[t]]
            /\ ctx[inst[t]] = t
       /\ UseSetup(t) => ffiResult'[inst[t]] = Nil
       /\ UseRelease(t) =>
            /\ pc'[t] = "idle" /\ ret'[t] = "ok"
            /\ ctx'[inst[t]] = NoCtx
            /\ ffiResult'[inst[t]] = Nil
            /\ Load(instanceMapper', ident[t]) = NoRef
            /\ access'[inst[t]] = 0
       /\ (SetupDraw(t) /\ pc'[t] # "uStore") =>
            /\ pc'[t] = "idle" /\ ret'[t] = "err"
            /\ access'[inst[t]] = 0]_vars

\* the resolved states of a promise
Resolved == {"value", "RunError", "Transient", "Timeout", "NoWorker", "Fatal"}

\* a promise that is pending and was never completed, or holds an outcome and was
\* completed once
OneShot(p) ==
  \/ p.state \in {"none", "pending"} /\ p.n = 0
  \/ p.state \in Resolved /\ p.n = 1

UpperBound(p) == IF p.max = 0 THEN p.size ELSE p.max

C21_CursorInRange ==
  [][/\ created >= 1 => instIndex <= Len(instances) - 1
     /\ created' >= 1 => instIndex' <= Len(instances') - 1
     /\ \A t \in Threads :
          (UsePick(t) /\ Len(instances) >= 1) =>
            /\ instIndex' \in 0..(Len(instances) - 1)
            /\ pc'[t] = "uReadAccess"]_vars

\* C22: when graphql_query returns n >= 0 the calling instance's ffiResult is the
\* n bytes of the marshalled response; when it returns -1 no instance's ffiResult
\* has changed
C22_ReturnAgreesWithStaged ==
  [][\A t \in Threads :
       /\ (HostStage(t) /\ hcRet'[t].val >= 0) =>
            /\ ffiResult'[inst[t]] = Marshal(hcResp[t])
            /\ Len(ffiResult'[inst[t]]) = hcRet'[t].val
       /\ ((HostResolve(t) \/ HostCapability(t) \/ HostStage(t))
             /\ hcKind[t] = "graphql_query" /\ hcRet'[t].val = -1) =>
            ffiResult' = ffiResult
       /\ \A id \in Idents :
            (HostCall(t, "graphql_query", id) /\ hcRet'[t].val = -1) =>
              ffiResult' = ffiResult]_vars

====
